---- MODULE Spec2Model ----
(***************************************************************************)
(* Model of src/src/open_clip/model.py: the tower factories, the composite *)
(* CLIP model (construction, encode_image / encode_text / forward), the    *)
(* precision converter, the legacy-checkpoint adapter and the position-    *)
(* embedding resizer.                                                      *)
(*                                                                         *)
(* Tensors are abstracted to what the code reads from them: shapes, dtype  *)
(* and, where a claim is about values, a small integer payload.  Python    *)
(* exceptions are modelled as a status string carried by the result.       *)
(* Assertions are modelled as enabled (the interpreter's default mode).    *)
(***************************************************************************)
EXTENDS Integers, Sequences, FiniteSets, TLC

VARIABLES model, modules, params, ret, state_dict, truth, weights

vars == <<model, modules, params, ret, state_dict, truth, weights>>

-----------------------------------------------------------------------------
(* Python values *)

\* Python's None for an Optional[int] argument or attribute.
NoneVal == -1

\* Python's None for an Optional[str] field (timm_model_name: str = None).
NoneStr == "<None>"

\* Truthiness of an Optional[str]: None and the empty string are falsy.
Truthy(s) == s /= NoneStr /\ s /= ""

\* `a or b` on Optional[int]: None and 0 are falsy.
OrElse(a, b) == IF a = NoneVal \/ a = 0 THEN b ELSE a

\* A call that raised: no object is returned.
Raise(exc) == [status |-> exc]

Ok(r) == r.status = "ok"

-----------------------------------------------------------------------------
(* Bounds and input domains *)

MaxWidth == 6
MaxHeadWidth == 4
MaxReduce == 1
MaxVal == 2

\* layers: Union[Tuple[int, int, int, int], int]
ScalarLayers(n) == [is_seq |-> FALSE, n |-> n, stages |-> <<>>]
TupleLayers(s) == [is_seq |-> TRUE, n |-> NoneVal, stages |-> s]

LayersDomain == {ScalarLayers(2), TupleLayers(<<1, 1, 2, 1>>)}

VisionCfgs ==
  [timm_model_name : {NoneStr, "", "timm_vit"},
   layers : LayersDomain,
   width : (MaxWidth - 2) .. MaxWidth,
   head_width : {0} \cup ((MaxHeadWidth - 1) .. MaxHeadWidth),
   patch_size : {2},
   image_size : {4}]

TextCfgs ==
  [hf_model_name : {NoneStr, "hf_bert"},
   context_length : {3},
   vocab_size : {5},
   width : {4},
   heads : {2},
   layers : {2},
   global_average_pool : BOOLEAN,
   attentional_pool : BOOLEAN]

\* sparo_type "representation:weighting", held as the result of split(":").
SparoTypes ==
  {<<"cont", "const">>, <<"cont", "softmax">>, <<"sem", "sqrtsoftmax">>,
   <<"sqrtsem", "norm">>, <<"cont", "logsoftmax">>, <<"bag", "const">>,
   <<"sem", "norm">>}

-----------------------------------------------------------------------------
(* Tower factories *)

\* The four vision backbones and three text towers imported at lines 16-19,
\* as the arguments the factories hand them.
TimmModel(cfg, embed_dim) ==
  [status |-> "ok", kind |-> "TimmModel", output_dim |-> embed_dim,
   heads |-> NoneVal, layers |-> cfg.layers, width |-> cfg.width,
   image_size |-> cfg.image_size, patch_size |-> NoneVal,
   V |-> NoneVal, sparo |-> NoneStr]

ModifiedResNet(layers, output_dim, heads, image_size, width) ==
  [status |-> "ok", kind |-> "ModifiedResNet", output_dim |-> output_dim,
   heads |-> heads, layers |-> layers, width |-> width,
   image_size |-> image_size, patch_size |-> NoneVal,
   V |-> NoneVal, sparo |-> NoneStr]

SPAROVisionTransformer(cfg, layers, heads, output_dim, V) ==
  [status |-> "ok", kind |-> "SPAROVisionTransformer", output_dim |-> output_dim,
   heads |-> heads, layers |-> layers, width |-> cfg.width,
   image_size |-> cfg.image_size, patch_size |-> cfg.patch_size,
   V |-> V, sparo |-> "visual.sparo"]

VisionTransformer(cfg, layers, heads, output_dim) ==
  [status |-> "ok", kind |-> "VisionTransformer", output_dim |-> output_dim,
   heads |-> heads, layers |-> layers, width |-> cfg.width,
   image_size |-> cfg.image_size, patch_size |-> cfg.patch_size,
   V |-> NoneVal, sparo |-> NoneStr]

\* A residual head count without the 32x multiplier.
ResNetHeadsNoMultiplier(cfg) == cfg.width \div cfg.head_width

\* vision_cfg.width * 32 // vision_cfg.head_width (line 128); the divisor is
\* nonzero where this is used, and // on nonnegative operands is \div.
ResNetHeads(cfg) == (cfg.width * 32) \div cfg.head_width

\* vision_cfg.width // vision_cfg.head_width (line 137)
ViTHeads(cfg) == cfg.width \div cfg.head_width

\* (layers[0], layers[1], layers[2] - reduce_depth, layers[3]) (line 130)
ReduceStages(s, reduce_depth) == <<s[1], s[2], s[3] - reduce_depth, s[4]>>

\* A residual branch without the assertion of line 127.
ResNetBranchNoAssert(embed_dim, cfg, use_sparo, reduce_depth) ==
  IF cfg.head_width = 0 THEN Raise("ZeroDivisionError")
  ELSE ModifiedResNet(TupleLayers(ReduceStages(cfg.layers.stages, reduce_depth)),
                      embed_dim, ResNetHeads(cfg), cfg.image_size, cfg.width)

\* The residual branch, lines 126-135.
ResNetBranch(embed_dim, cfg, use_sparo, reduce_depth) ==
  IF use_sparo THEN Raise("AssertionError")
  ELSE IF cfg.head_width = 0 THEN Raise("ZeroDivisionError")
  ELSE ModifiedResNet(TupleLayers(ReduceStages(cfg.layers.stages, reduce_depth)),
                      embed_dim, ResNetHeads(cfg), cfg.image_size, cfg.width)

\* The transformer branch, lines 136-185.
ViTBranch(embed_dim, cfg, use_sparo, V, reduce_depth) ==
  IF cfg.head_width = 0 THEN Raise("ZeroDivisionError")
  ELSE IF use_sparo
    THEN SPAROVisionTransformer(cfg, ScalarLayers(cfg.layers.n - reduce_depth),
                                ViTHeads(cfg), embed_dim, V)
    ELSE VisionTransformer(cfg, ScalarLayers(cfg.layers.n - reduce_depth),
                           ViTHeads(cfg), embed_dim)

\* A selection order that tests the layers field before the named backbone.
_build_vision_tower_layers_first(embed_dim, cfg, use_sparo, V, reduce_depth) ==
  IF cfg.layers.is_seq THEN ResNetBranch(embed_dim, cfg, use_sparo, reduce_depth)
  ELSE IF Truthy(cfg.timm_model_name) THEN TimmModel(cfg, embed_dim)
  ELSE ViTBranch(embed_dim, cfg, use_sparo, V, reduce_depth)

\* lines 113-187
_build_vision_tower(embed_dim, cfg, use_sparo, V, reduce_depth) ==
  IF Truthy(cfg.timm_model_name) THEN TimmModel(cfg, embed_dim)
  ELSE IF cfg.layers.is_seq THEN ResNetBranch(embed_dim, cfg, use_sparo, reduce_depth)
  ELSE ViTBranch(embed_dim, cfg, use_sparo, V, reduce_depth)

HFTextEncoder(cfg, output_dim) ==
  [status |-> "ok", kind |-> "HFTextEncoder", output_dim |-> output_dim,
   heads |-> NoneVal, layers |-> NoneVal, width |-> NoneVal, V |-> NoneVal,
   sparo |-> NoneStr, attn_pool |-> FALSE, global_average_pool |-> FALSE,
   context_length |-> NoneVal, vocab_size |-> NoneVal]

SPAROTextTransformer(cfg, layers, output_dim, V) ==
  [status |-> "ok", kind |-> "SPAROTextTransformer", output_dim |-> output_dim,
   heads |-> cfg.heads, layers |-> layers, width |-> cfg.width, V |-> V,
   sparo |-> "text.sparo", attn_pool |-> cfg.attentional_pool,
   global_average_pool |-> cfg.global_average_pool,
   context_length |-> cfg.context_length, vocab_size |-> cfg.vocab_size]

TextTransformer(cfg, layers, output_dim) ==
  [status |-> "ok", kind |-> "TextTransformer", output_dim |-> output_dim,
   heads |-> cfg.heads, layers |-> layers, width |-> cfg.width, V |-> NoneVal,
   sparo |-> NoneStr, attn_pool |-> cfg.attentional_pool,
   global_average_pool |-> cfg.global_average_pool,
   context_length |-> cfg.context_length, vocab_size |-> cfg.vocab_size]

_build_text_tower(embed_dim, cfg, use_sparo, V, reduce_depth) ==
  IF Truthy(cfg.hf_model_name) THEN HFTextEncoder(cfg, embed_dim)
  ELSE IF use_sparo
    THEN SPAROTextTransformer(cfg, cfg.layers - reduce_depth, embed_dim, V)
    ELSE TextTransformer(cfg, cfg.layers - reduce_depth, embed_dim)

-----------------------------------------------------------------------------
(* CLIP.__init__ *)

ClipVisionCfgs ==
  {c \in VisionCfgs : c.timm_model_name /= "" /\ c.width = MaxWidth - 2
                      /\ c.head_width \in {0, MaxHeadWidth}}

ClipArgs ==
  [embed_dim : {4}, vision_cfg : ClipVisionCfgs, text_cfg : TextCfgs,
   output_dict : BOOLEAN, use_sparo : BOOLEAN, L : {2}, V : {2},
   reduce_depth : {0}, sparo_type : SparoTypes, share_queries : BOOLEAN,
   use_codebook : BOOLEAN, num_codes : {3}, bottleneck_dim : {NoneVal, 0, 2}]

\* sparo_type.endswith("softmax") on the weighting half of the tag (line 307);
\* the representation half never follows the colon.
EndsWithSoftmax(t) == t[2] \in {"softmax", "sqrtsoftmax", "logsoftmax"}

\* A slot width that never reserves the extra channel.
model_V_nominal(a) == a.V

\* lines 307-310
model_V(a) ==
  IF ~a.use_sparo \/ ~EndsWithSoftmax(a.sparo_type) THEN a.V ELSE a.V + 1

\* embed_dim=bottleneck_dim or embed_dim (lines 313, 328)
TowerDim(a) == OrElse(a.bottleneck_dim, a.embed_dim)

\* The heap of the objects both towers can share: a sparo submodule holds a
\* reference to its q_emb parameter, and a parameter holds a value.
EmptyHeap == [modules |-> [i \in {} |-> 0], params |-> [i \in {} |-> 0]]

\* The sparo submodules the freshly built towers own, each with its own q_emb.
TowerHeap(visual, text, qv, qt) ==
  LET ids == {t.sparo : t \in {r \in {visual, text} : r.sparo /= NoneStr}}
  IN [modules |-> [i \in ids |-> [q_emb |-> i \o ".q_emb"]],
      params |-> [p \in {i \o ".q_emb" : i \in ids} |->
                    IF p = "visual.sparo.q_emb" THEN qv ELSE qt]]

\* A variant that gives the text tower a copy of the vision tower's values.
ShareQueriesByCopy(h) ==
  [h EXCEPT !.params["text.sparo.q_emb"] = h.params["visual.sparo.q_emb"]]

\* text.sparo.q_emb = self.visual.sparo.q_emb (line 343)
ShareQueries(h) ==
  [h EXCEPT !.modules["text.sparo"].q_emb = h.modules["visual.sparo"].q_emb]

\* torch.ones([]) * np.log(1 / 0.07) (lines 373, 521), held symbolically.
InitLogitScale == "log(1/0.07)"

\* What CLIP.__init__ leaves on self once every statement has run; `text` is the
\* local text tower and `args` the call's arguments, kept for reference.
ClipObject(a, visual, text) ==
  [status |-> "ok", class |-> "CLIP", logit_scale |-> InitLogitScale,
   embed_dim |-> a.embed_dim, output_dict |-> a.output_dict,
   use_sparo |-> a.use_sparo, L |-> a.L, V |-> a.V,
   sparo_type |-> a.sparo_type, use_codebook |-> a.use_codebook,
   bottleneck_dim |-> a.bottleneck_dim, model_V |-> model_V(a),
   visual |-> visual,
   text |-> text,
   bottleproj |-> IF a.bottleneck_dim /= NoneVal
                    THEN <<a.bottleneck_dim, a.embed_dim>> ELSE <<>>,
   context_length |-> text.context_length, vocab_size |-> text.vocab_size,
   hoisted |-> ~a.use_codebook,
   text_attn_pool |-> ~a.use_codebook /\ text.attn_pool,
   text_global_average_pool |-> ~a.use_codebook /\ text.global_average_pool,
   text_projection |-> ~a.use_codebook /\ ~a.use_sparo,
   text_sparo |-> IF ~a.use_codebook /\ a.use_sparo THEN text.sparo ELSE NoneStr,
   space_dict |-> IF a.use_codebook THEN <<a.num_codes, TowerDim(a)>> ELSE <<>>,
   attn_mask_persistent |-> FALSE,
   training |-> TRUE,
   args |-> a]

\* CLIP.__init__ from line 312 on: the first exception raised, or "ok", and the
\* towers built by then.  TimmModel has no sparo submodule (line 343) and
\* HFTextEncoder has none of the hoisted attributes (lines 349-353).
ClipInitStatus(a, visual, text) ==
  IF ~Ok(visual) THEN [status |-> visual.status, built |-> <<>>]
  ELSE IF ~Ok(text) THEN [status |-> text.status, built |-> <<"visual">>]
  ELSE IF a.use_sparo /\ a.share_queries
          /\ (visual.sparo = NoneStr \/ text.sparo = NoneStr)
    THEN [status |-> "AttributeError", built |-> <<"visual", "text">>]
  ELSE IF text.kind = "HFTextEncoder"
    THEN [status |-> "AttributeError", built |-> <<"visual", "text">>]
  ELSE [status |-> "ok", built |-> <<"visual", "text">>]

\* A constructor without the mutual-exclusion test of lines 304-305.
ClipStatusUnchecked(a, visual, text) == ClipInitStatus(a, visual, text)

\* lines 304-305, then the rest of the constructor
ClipStatus(a, visual, text) ==
  IF a.use_sparo /\ a.use_codebook THEN [status |-> "ValueError", built |-> <<>>]
  ELSE ClipInitStatus(a, visual, text)

-----------------------------------------------------------------------------
(* encode_image / encode_text / forward *)

\* A slot decomposition that treats an unrecognized representation as "cont".
_project_for_sparo_defaulting(m, width) ==
  LET rep == m.sparo_type[1]
      norm == m.sparo_type[2]
      drop == norm \in {"sqrtsoftmax", "softmax"}
      v == IF drop THEN m.model_V - 1 ELSE m.model_V
  IN IF width /= m.L * m.model_V THEN Raise("RuntimeError")
     ELSE IF norm \notin {"sqrtsoftmax", "softmax", "norm", "const"}
       THEN Raise("NotImplementedError")
     ELSE [status |-> "ok", shape |-> <<m.L, v>>]

\* _project_for_sparo (lines 384-416) on an input whose last axis has `width`
\* entries: the exception raised, or the shape of the result.
_project_for_sparo(m, width) ==
  LET rep == m.sparo_type[1]
      norm == m.sparo_type[2]
      drop == norm \in {"sqrtsoftmax", "softmax"}
      v == IF drop THEN m.model_V - 1 ELSE m.model_V
  IN IF width /= m.L * m.model_V THEN Raise("RuntimeError")
     ELSE IF norm = "norm" /\ rep \notin {"cont", "sqrtsem"} THEN Raise("NotImplementedError")
     ELSE IF norm \notin {"sqrtsoftmax", "softmax", "norm", "const"}
       THEN Raise("NotImplementedError")
     ELSE IF rep \notin {"cont", "sqrtsem", "sem"} THEN Raise("NotImplementedError")
     ELSE [status |-> "ok", shape |-> <<m.L, v>>]

\* The tail of both structured paths (lines 429-437, 477-485).
SparoReturn(m, width, attn_ok, return_sparo, return_attn) ==
  LET out == _project_for_sparo(m, width)
  IN IF ~attn_ok THEN Raise("ValueError")
     ELSE IF ~Ok(out) THEN out
     ELSE IF return_sparo
       THEN [status |-> "ok", kind |-> IF return_attn THEN "sparo+attn" ELSE "sparo",
             shape |-> out.shape, normalized |-> TRUE]
       ELSE [status |-> "ok", kind |-> "features",
             shape |-> <<out.shape[1] * out.shape[2]>>, normalized |-> TRUE]

\* The tail of both plain paths (lines 423-425, 469-471): the bottleneck
\* projection is a Linear(bottleneck_dim, embed_dim) and needs its input width.
PlainReturn(m, width, normalize) ==
  IF m.bottleneck_dim /= NoneVal
    THEN IF width /= m.bottleproj[1] THEN Raise("RuntimeError")
         ELSE [status |-> "ok", kind |-> "features", shape |-> <<m.bottleproj[2]>>,
               normalized |-> normalize]
    ELSE [status |-> "ok", kind |-> "features", shape |-> <<width>>,
          normalized |-> normalize]

\* An encode_image whose structured path does not require normalize.
encode_image_unasserted(m, normalize, return_sparo, return_attn) ==
  IF ~m.use_sparo
    THEN PlainReturn(m, IF m.use_codebook THEN m.space_dict[2] ELSE m.visual.output_dim,
                     normalize)
    ELSE SparoReturn(m, m.L * m.visual.V, m.visual.sparo /= NoneStr,
                     return_sparo, return_attn)

\* lines 418-437.  A structured vision tower returns (out, attn) with out of
\* width L * V; any other tower returns one tensor, which does not unpack.
encode_image(m, normalize, return_sparo, return_attn) ==
  IF ~m.use_sparo
    THEN PlainReturn(m, IF m.use_codebook THEN m.space_dict[2] ELSE m.visual.output_dim,
                     normalize)
    ELSE IF ~normalize THEN Raise("AssertionError")
    ELSE SparoReturn(m, m.L * m.visual.V, m.visual.sparo /= NoneStr,
                     return_sparo, return_attn)

\* An encode_text that selects the end-of-sequence state where line 462 raises.
encode_text_eos_fallback(m, normalize, return_sparo, return_attn) ==
  IF ~m.use_sparo
    THEN PlainReturn(m, IF m.use_codebook THEN m.space_dict[2] ELSE m.text.output_dim,
                     normalize)
    ELSE IF ~normalize THEN Raise("AssertionError")
    ELSE SparoReturn(m, m.L * m.model_V, TRUE, return_sparo, return_attn)

\* lines 439-485
encode_text(m, normalize, return_sparo, return_attn) ==
  IF ~m.use_sparo
    THEN IF ~m.use_codebook
           THEN IF ~m.text_attn_pool /\ m.text_global_average_pool
                  THEN Raise("NotImplementedError")
                  ELSE PlainReturn(m, m.text.output_dim, normalize)
           ELSE PlainReturn(m, m.space_dict[2], normalize)
    ELSE IF ~normalize THEN Raise("AssertionError")
    ELSE SparoReturn(m, m.L * m.model_V, TRUE, return_sparo, return_attn)

\* Absent features: forward's None for an absent input.
NoFeatures == [status |-> "ok", kind |-> "None"]

\* normalize=True at lines 492-493
ForwardNormalize == TRUE

\* self.logit_scale.exp() (lines 498, 500, 554, 556)
Exp(x) == <<"exp", x>>

\* A result that is a tuple whatever output_dict is.
ForwardResultTupleOnly(m, image_features, text_features) ==
  IF ~Ok(image_features) THEN image_features
  ELSE IF ~Ok(text_features) THEN text_features
  ELSE [status |-> "ok", kind |-> "tuple",
        value |-> <<image_features, text_features, Exp(m.logit_scale)>>]

\* lines 494-500 and 550-556; an exception of either encoder has propagated
\* before these lines are reached.
ForwardResult(m, image_features, text_features) ==
  IF ~Ok(image_features) THEN image_features
  ELSE IF ~Ok(text_features) THEN text_features
  ELSE IF m.output_dict
    THEN [status |-> "ok", kind |-> "dict",
          value |-> [image_features |-> image_features,
                     text_features |-> text_features,
                     logit_scale |-> Exp(m.logit_scale)]]
    ELSE [status |-> "ok", kind |-> "tuple",
          value |-> <<image_features, text_features, Exp(m.logit_scale)>>]

\* lines 487-500
forward(m, has_image, has_text) ==
  ForwardResult(m,
    IF has_image THEN encode_image(m, ForwardNormalize, FALSE, FALSE) ELSE NoFeatures,
    IF has_text THEN encode_text(m, ForwardNormalize, FALSE, FALSE) ELSE NoFeatures)

-----------------------------------------------------------------------------
(* CustomTextCLIP *)

CustomTextClipArgs ==
  [embed_dim : {4}, vision_cfg : ClipVisionCfgs, text_cfg : TextCfgs,
   output_dict : BOOLEAN]

\* lines 517-518: the factories are called with their defaults, use_sparo =
\* False, V = None and reduce_depth = 0.
CustomVisual(a) == _build_vision_tower(a.embed_dim, a.vision_cfg, FALSE, NoneVal, 0)
CustomText(a) == _build_text_tower(a.embed_dim, a.text_cfg, FALSE, NoneVal, 0)

\* What CustomTextCLIP.__init__ (lines 506-521) leaves on self.
CustomTextClipObject(a, visual, text) ==
  [status |-> "ok", class |-> "CustomTextCLIP", logit_scale |-> InitLogitScale,
   output_dict |-> a.output_dict, visual |-> visual, text |-> text,
   context_length |-> text.context_length, vocab_size |-> text.vocab_size]

\* lines 535-537
CustomTextCLIP_encode_image(m, normalize) ==
  [status |-> "ok", kind |-> "features", shape |-> <<m.visual.output_dim>>,
   normalized |-> normalize]

\* lines 539-541
CustomTextCLIP_encode_text(m, normalize) ==
  [status |-> "ok", kind |-> "features", shape |-> <<m.text.output_dim>>,
   normalized |-> normalize]

\* lines 543-556
CustomTextCLIP_forward(m, has_image, has_text) ==
  ForwardResult(m,
    IF has_image THEN CustomTextCLIP_encode_image(m, ForwardNormalize) ELSE NoFeatures,
    IF has_text THEN CustomTextCLIP_encode_text(m, ForwardNormalize) ELSE NoFeatures)

-----------------------------------------------------------------------------
(* The program: constructing towers and a model, then calling it *)

NoModel == [status |-> "none"]

NoDict == [k \in {} |-> 0]

InitBuild ==
  /\ model = NoModel
  /\ modules = EmptyHeap.modules
  /\ params = EmptyHeap.params
  /\ ret = [op |-> "init", status |-> "ok"]
  /\ state_dict = NoDict
  /\ truth = NoDict
  /\ weights = NoDict

Fresh == model = NoModel /\ ret.op = "init"

IsClip == Ok(model) /\ model.class = "CLIP"
IsCustomTextClip == Ok(model) /\ model.class = "CustomTextCLIP"

\* A direct call of _build_vision_tower (lines 90-187).
BuildVisionTower ==
  /\ Fresh
  /\ \E cfg \in VisionCfgs, use_sparo \in BOOLEAN, reduce_depth \in 0 .. MaxReduce :
       ret' = [op |-> "_build_vision_tower", cfg |-> cfg, use_sparo |-> use_sparo,
               reduce_depth |-> reduce_depth,
               tower |-> _build_vision_tower(4, cfg, use_sparo, 2, reduce_depth)]
  /\ UNCHANGED <<model, modules, params, state_dict, truth, weights>>

\* A direct call of _build_text_tower (lines 190-266).
BuildTextTower ==
  /\ Fresh
  /\ \E cfg \in TextCfgs, use_sparo \in BOOLEAN, reduce_depth \in 0 .. MaxReduce :
       ret' = [op |-> "_build_text_tower", cfg |-> cfg, use_sparo |-> use_sparo,
               reduce_depth |-> reduce_depth,
               tower |-> _build_text_tower(4, cfg, use_sparo, 2, reduce_depth)]
  /\ UNCHANGED <<model, modules, params, state_dict, truth, weights>>

\* CLIP(...) (lines 272-373); q_emb parameters start at arbitrary values.
ClipInit ==
  /\ Fresh
  /\ \E a \in ClipArgs, qv \in 0 .. MaxVal, qt \in 0 .. MaxVal :
       LET visual == _build_vision_tower(TowerDim(a), a.vision_cfg, a.use_sparo,
                                         model_V(a), a.reduce_depth)
           text == _build_text_tower(TowerDim(a), a.text_cfg, a.use_sparo,
                                     model_V(a), a.reduce_depth)
           st == ClipStatus(a, visual, text)
           h0 == TowerHeap(visual, text, qv, qt)
           h == IF a.use_sparo /\ a.share_queries THEN ShareQueries(h0) ELSE h0
       IN /\ ret' = [op |-> "CLIP", status |-> st.status, built |-> st.built, args |-> a]
          /\ IF st.status = "ok"
               THEN /\ model' = ClipObject(a, visual, text)
                    /\ modules' = h.modules
                    /\ params' = h.params
               ELSE UNCHANGED <<model, modules, params>>
  /\ UNCHANGED <<state_dict, truth, weights>>

\* CustomTextCLIP(...) (lines 506-521); a tower that fails to build raises.
CustomTextClipInit ==
  /\ Fresh
  /\ \E a \in CustomTextClipArgs :
       LET visual == CustomVisual(a)
           text == CustomText(a)
       IN IF Ok(visual) /\ Ok(text)
            THEN /\ model' = CustomTextClipObject(a, visual, text)
                 /\ ret' = [op |-> "CustomTextCLIP", status |-> "ok", args |-> a]
            ELSE /\ ret' = [op |-> "CustomTextCLIP", args |-> a,
                            status |-> IF Ok(visual) THEN text.status
                                       ELSE visual.status]
                 /\ UNCHANGED model
  /\ UNCHANGED <<modules, params, state_dict, truth, weights>>

CustomForward ==
  /\ IsCustomTextClip
  /\ \E has_image \in BOOLEAN, has_text \in BOOLEAN :
       ret' = [op |-> "CustomTextCLIP.forward", has_image |-> has_image,
               has_text |-> has_text,
               out |-> CustomTextCLIP_forward(model, has_image, has_text)]
  /\ UNCHANGED <<model, modules, params, state_dict, truth, weights>>

\* An in-place write to the q_emb parameter reached through one tower.
MutateQEmb ==
  /\ IsClip
  /\ \E via \in {"visual", "text"}, val \in 0 .. MaxVal :
       LET sparo == IF via = "visual" THEN model.visual.sparo ELSE model.text.sparo
       IN /\ sparo /= NoneStr
          /\ params' = [params EXCEPT ![modules[sparo].q_emb] = val]
          /\ ret' = [op |-> "mutate_q_emb", status |-> "ok", via |-> via, value |-> val]
  /\ UNCHANGED <<model, modules, state_dict, truth, weights>>

EncodeImage ==
  /\ IsClip
  /\ \E normalize \in BOOLEAN, return_sparo \in BOOLEAN, return_attn \in BOOLEAN :
       ret' = [op |-> "encode_image", normalize |-> normalize,
               return_sparo |-> return_sparo, return_attn |-> return_attn,
               out |-> encode_image(model, normalize, return_sparo, return_attn)]
  /\ UNCHANGED <<model, modules, params, state_dict, truth, weights>>

EncodeText ==
  /\ IsClip
  /\ \E normalize \in BOOLEAN, return_sparo \in BOOLEAN, return_attn \in BOOLEAN :
       ret' = [op |-> "encode_text", normalize |-> normalize,
               return_sparo |-> return_sparo, return_attn |-> return_attn,
               out |-> encode_text(model, normalize, return_sparo, return_attn)]
  /\ UNCHANGED <<model, modules, params, state_dict, truth, weights>>

\* The slot decomposition applied to a tower output of a structured model
\* (lines 429, 477), for inputs of the reserved and of the nominal length.
ProjectForSparo ==
  /\ IsClip
  /\ model.use_sparo
  /\ \E width \in {model.L * model.V, model.L * (model.V + 1)} :
       ret' = [op |-> "_project_for_sparo", width |-> width,
               out |-> _project_for_sparo(model, width)]
  /\ UNCHANGED <<model, modules, params, state_dict, truth, weights>>

Forward ==
  /\ IsClip
  /\ \E has_image \in BOOLEAN, has_text \in BOOLEAN :
       ret' = [op |-> "forward", has_image |-> has_image, has_text |-> has_text,
               out |-> forward(model, has_image, has_text)]
  /\ UNCHANGED <<model, modules, params, state_dict, truth, weights>>

NextBuild ==
  \/ BuildVisionTower
  \/ BuildTextTower
  \/ ClipInit
  \/ MutateQEmb
  \/ EncodeImage
  \/ EncodeText
  \/ ProjectForSparo
  \/ Forward
  \/ CustomTextClipInit
  \/ CustomForward

SpecBuild == InitBuild /\ [][NextBuild]_vars

-----------------------------------------------------------------------------
(* Claims about construction and encoding, checked under SpecBuild *)

AfterClip == ret.op = "CLIP"
AfterVision == ret.op = "_build_vision_tower"
AfterText == ret.op = "_build_text_tower"

\* C1: constructing CLIP with use_sparo and use_codebook both set raises
\* ValueError whatever the other arguments are, before either tower is built,
\* and no model exists afterwards.
C1_SparoCodebookExclusive ==
  (AfterClip /\ ret.args.use_sparo /\ ret.args.use_codebook)
    => (ret.status = "ValueError" /\ ret.built = <<>> /\ model = NoModel)

C1_Witness ==
  /\ AfterClip /\ ret.args.use_sparo /\ ret.args.use_codebook
  /\ ret.args.vision_cfg.timm_model_name = "timm_vit"
  /\ ret.args.text_cfg.hf_model_name = "hf_bert"
  /\ ret.args.bottleneck_dim = 0
  /\ ret.status = "ValueError"

\* C2 as stated: every vision config with a tuple/list layers field fails to
\* build when use_sparo is requested.
C2_Original ==
  (AfterVision /\ ret.cfg.layers.is_seq /\ ret.use_sparo) => ~Ok(ret.tower)

\* C2, amended: a vision config that names no external backbone and has a
\* tuple/list layers field fails with the assertion when use_sparo is
\* requested; one that names an external backbone gets the named-backbone
\* adapter, layers and use_sparo notwithstanding.
C2_ResNetRejectsSparo ==
  (AfterVision /\ ret.cfg.layers.is_seq /\ ret.use_sparo)
    => IF Truthy(ret.cfg.timm_model_name)
         THEN Ok(ret.tower) /\ ret.tower.kind = "TimmModel"
         ELSE ret.tower = Raise("AssertionError")

C2_Witness ==
  /\ AfterVision /\ ret.cfg.layers.is_seq /\ ret.use_sparo
  /\ ret.cfg.timm_model_name = NoneStr
  /\ ret.cfg.head_width /= 0
  /\ ret.tower.status = "AssertionError"

\* The variant the selection order names for a config, failures aside.
SelectedVision(cfg, use_sparo) ==
  IF Truthy(cfg.timm_model_name) THEN "TimmModel"
  ELSE IF cfg.layers.is_seq THEN "ModifiedResNet"
  ELSE IF use_sparo THEN "SPAROVisionTransformer" ELSE "VisionTransformer"

SelectedText(cfg, use_sparo) ==
  IF Truthy(cfg.hf_model_name) THEN "HFTextEncoder"
  ELSE IF use_sparo THEN "SPAROTextTransformer" ELSE "TextTransformer"

\* C3 as stated: selection is first-match-wins and total, so every config
\* yields exactly the variant the order names.
C3_Original ==
  /\ AfterVision =>
       (Ok(ret.tower) /\ ret.tower.kind = SelectedVision(ret.cfg, ret.use_sparo))
  /\ AfterText =>
       (Ok(ret.tower) /\ ret.tower.kind = SelectedText(ret.cfg, ret.use_sparo))

\* The vision configs for which the factory itself raises.
VisionFails(cfg, use_sparo) ==
  /\ ~Truthy(cfg.timm_model_name)
  /\ \/ cfg.layers.is_seq /\ use_sparo
     \/ cfg.head_width = 0

\* C3, amended: selection is first-match-wins; the text factory is total; the
\* vision factory builds exactly the variant the order names except that,
\* with no external backbone named, it builds nothing when a tuple/list
\* layers field meets use_sparo (assertion) or when head_width is 0
\* (division by zero).
C3_FirstMatchSelection ==
  /\ AfterVision =>
       IF VisionFails(ret.cfg, ret.use_sparo)
         THEN ~Ok(ret.tower) /\ DOMAIN ret.tower = {"status"}
         ELSE Ok(ret.tower) /\ ret.tower.kind = SelectedVision(ret.cfg, ret.use_sparo)
  /\ AfterText =>
       (Ok(ret.tower) /\ ret.tower.kind = SelectedText(ret.cfg, ret.use_sparo))

C3_Witness ==
  /\ AfterVision
  /\ ret.cfg.timm_model_name = "timm_vit" /\ ret.cfg.layers.is_seq /\ ret.use_sparo
  /\ ret.cfg.head_width = 0
  /\ ret.tower.kind = "TimmModel"

\* The numerator of the head-count ratio on the two paths that derive one.
HeadNumerator(cfg) == IF cfg.layers.is_seq THEN cfg.width * 32 ELSE cfg.width

DerivesHeads(cfg, use_sparo) ==
  ~Truthy(cfg.timm_model_name) /\ ~(cfg.layers.is_seq /\ use_sparo)

\* C4 as stated: the head count is the exact ratio, and a head_width that
\* does not divide the numerator makes construction fail.
C4_Original ==
  (AfterVision /\ DerivesHeads(ret.cfg, ret.use_sparo) /\ ret.cfg.head_width /= 0)
    => IF HeadNumerator(ret.cfg) % ret.cfg.head_width = 0
         THEN Ok(ret.tower)
              /\ ret.tower.heads * ret.cfg.head_width = HeadNumerator(ret.cfg)
         ELSE ~Ok(ret.tower)

\* C4, amended: the head count is the floor of width*32/head_width on the
\* residual path and of width/head_width on the transformer path; a
\* head_width that does not divide the numerator is rounded down silently
\* and the backbone is still constructed with that count; only a head_width
\* of 0 fails, with a division error.
C4_HeadsFloorDivide ==
  (AfterVision /\ DerivesHeads(ret.cfg, ret.use_sparo))
    => IF ret.cfg.head_width = 0
         THEN ret.tower = Raise("ZeroDivisionError")
         ELSE /\ Ok(ret.tower)
              /\ ret.tower.heads * ret.cfg.head_width <= HeadNumerator(ret.cfg)
              /\ HeadNumerator(ret.cfg) < (ret.tower.heads + 1) * ret.cfg.head_width

C4_Witness ==
  /\ AfterVision /\ DerivesHeads(ret.cfg, ret.use_sparo)
  /\ ret.cfg.layers.is_seq
  /\ ret.cfg.head_width /= 0
  /\ HeadNumerator(ret.cfg) % ret.cfg.head_width /= 0
  /\ Ok(ret.tower)
  /\ ret.tower.heads * ret.cfg.head_width < HeadNumerator(ret.cfg)

\* The q_emb parameter reached through a sparo submodule.
QEmb(sparo) == modules[sparo].q_emb

BothSparo == Ok(model) /\ model.visual.sparo /= NoneStr /\ model.text.sparo /= NoneStr

\* C9: in a model built with use_sparo and share_queries the text tower's
\* q_emb, also as reached through the hoisted text_sparo, is the very
\* parameter of the vision tower, so a value written through the vision tower
\* is the value read through the text tower; without share_queries the two
\* towers hold distinct parameters.
C9_SharedQueryAlias ==
  BothSparo =>
    IF model.args.share_queries
      THEN /\ QEmb(model.text.sparo) = QEmb(model.visual.sparo)
           /\ QEmb(model.text_sparo) = QEmb(model.visual.sparo)
           /\ (ret.op = "mutate_q_emb" /\ ret.via = "visual")
                => params[QEmb(model.text_sparo)] = ret.value
      ELSE /\ QEmb(model.text.sparo) /= QEmb(model.visual.sparo)
           /\ QEmb(model.text_sparo) = QEmb(model.text.sparo)

C9_Witness ==
  /\ BothSparo /\ model.args.share_queries
  /\ ret.op = "mutate_q_emb" /\ ret.via = "visual" /\ ret.value = MaxVal
  /\ params[QEmb(model.text_sparo)] = MaxVal

\* C10: on a model in structured mode encode_image and encode_text with
\* normalize = false raise the assertion and return nothing, whatever
\* return_sparo and return_attn are; forward never raises it.
C10_SparoRequiresNormalize ==
  /\ (ret.op \in {"encode_image", "encode_text"} /\ model.use_sparo /\ ~ret.normalize)
       => ret.out = Raise("AssertionError")
  /\ ret.op = "forward" => ret.out.status /= "AssertionError"

C10_Witness ==
  /\ ret.op = "encode_text" /\ model.use_sparo /\ ~ret.normalize
  /\ ret.return_sparo /\ ret.return_attn
  /\ ret.out.status = "AssertionError"

AfterProject == ret.op = "_project_for_sparo"

Weightings == {"sqrtsoftmax", "softmax", "norm", "const"}
Representations == {"cont", "sqrtsem", "sem"}

\* C11: slot decomposition never defaults: when the weighting half of the
\* model's tag is not one of sqrtsoftmax, softmax, norm, const, or the
\* representation half is not one of cont, sqrtsem, sem, the call raises and
\* returns nothing; on an input of the length the model reserved the error is
\* NotImplementedError.
C11_UnrecognizedTagFails ==
  (AfterProject /\ (model.sparo_type[2] \notin Weightings
                    \/ model.sparo_type[1] \notin Representations))
    => /\ ret.out \in {Raise("NotImplementedError"), Raise("RuntimeError")}
       /\ ret.width = model.L * model.model_V
            => ret.out = Raise("NotImplementedError")

C11_Witness ==
  /\ AfterProject
  /\ model.sparo_type = <<"bag", "const">>
  /\ ret.width = model.L * model.model_V
  /\ ret.out = Raise("NotImplementedError")

\* The text tower asks for mean pooling and has no attentional pooling module.
MeanPoolNoAttnPool ==
  /\ ret.op = "encode_text"
  /\ model.text.global_average_pool
  /\ ~model.text.attn_pool

\* C12 as claimed: on every model whose text tower asks for mean pooling and
\* has no attentional pooling module, encode_text raises NotImplementedError.
C12_Original == MeanPoolNoAttnPool => ret.out = Raise("NotImplementedError")

SupportedTag(t) ==
  /\ t[1] \in Representations
  /\ t[2] \in Weightings
  /\ t /= <<"sem", "norm">>

\* C12: on a model in neither structured nor codebook mode whose text tower
\* asks for mean pooling and has no attentional pooling module, encode_text
\* raises NotImplementedError whatever its flags are.  In codebook mode and in
\* structured mode the request is not consulted: codebook mode returns the
\* query model's features (for a bottleneck_dim that is None or nonzero), and
\* structured mode returns the slot features when normalize is set and the
\* tag is a supported one.
C12_MeanPoolUnimplemented ==
  MeanPoolNoAttnPool =>
    /\ (~model.use_sparo /\ ~model.use_codebook)
         => ret.out = Raise("NotImplementedError")
    /\ (model.use_codebook /\ model.bottleneck_dim /= 0)
         => Ok(ret.out) /\ ret.out.kind = "features"
    /\ (model.use_sparo /\ ret.normalize /\ SupportedTag(model.sparo_type))
         => Ok(ret.out) /\ ret.out.kind \in {"features", "sparo", "sparo+attn"}

C12_Witness ==
  /\ MeanPoolNoAttnPool
  /\ ~model.use_sparo /\ ~model.use_codebook
  /\ ret.normalize
  /\ ret.out = Raise("NotImplementedError")

AfterForward == ret.op \in {"forward", "CustomTextCLIP.forward"}

\* The three results of a forward that returned, whichever form they take.
Returned(i) ==
  IF ret.out.kind = "dict"
    THEN ret.out.value[<<"image_features", "text_features", "logit_scale">>[i]]
    ELSE ret.out.value[i]

\* C13: when forward of a CLIP or a CustomTextCLIP returns, the image features
\* are None exactly when no image was given, the text features are None
\* exactly when no text was given, the third result is exp(logit_scale), the
\* features that are present were computed with normalization on, and the
\* result is a 3-tuple when output_dict is false and a mapping with exactly the
\* keys image_features, text_features, logit_scale when it is true.
C13_ForwardOutputs ==
  (AfterForward /\ Ok(ret.out)) =>
    /\ Returned(1).kind = "None" <=> ~ret.has_image
    /\ Returned(2).kind = "None" <=> ~ret.has_text
    /\ Returned(3) = Exp(model.logit_scale)
    /\ ret.has_image => Returned(1).kind = "features" /\ Returned(1).normalized
    /\ ret.has_text => Returned(2).kind = "features" /\ Returned(2).normalized
    /\ IF model.output_dict
         THEN /\ ret.out.kind = "dict"
              /\ DOMAIN ret.out.value
                   = {"image_features", "text_features", "logit_scale"}
         ELSE /\ ret.out.kind = "tuple"
              /\ DOMAIN ret.out.value = 1 .. 3

C13_Witness ==
  /\ ret.op = "CustomTextCLIP.forward"
  /\ model.output_dict
  /\ ret.has_image /\ ~ret.has_text
  /\ Ok(ret.out)
  /\ ret.out.value.image_features.normalized
  /\ ret.out.value.text_features = NoFeatures

\* The towers that take a per-slot width were handed the model's.
TowersBuiltWith(v) ==
  /\ model.visual.kind = "SPAROVisionTransformer" => model.visual.V = v
  /\ model.text.kind = "SPAROTextTransformer" => model.text.V = v

\* A decomposition of an input of the length the model reserved.
ProjectsReserved == AfterProject /\ ret.width = model.L * model.model_V

\* C14 as claimed: the width is V+1 exactly for structured mode with weighting
\* softmax or sqrtsoftmax, and every tag whose two halves are recognized
\* decomposes an input of the reserved length into (L, V).
C14_Original ==
  /\ (AfterClip /\ IsClip) =>
       /\ model.model_V =
            IF model.use_sparo /\ model.sparo_type[2] \in {"softmax", "sqrtsoftmax"}
              THEN model.V + 1 ELSE model.V
       /\ TowersBuiltWith(model.model_V)
  /\ (/\ ProjectsReserved
      /\ model.sparo_type[1] \in Representations
      /\ model.sparo_type[2] \in Weightings)
       => ret.out = [status |-> "ok", shape |-> <<model.L, model.V>>]

\* C14: the towers are built with per-slot width V+1 exactly when structured
\* mode is on and the tag ends with "softmax" (among the recognized weightings:
\* softmax and sqrtsoftmax), and V otherwise.  For every recognized tag except
\* sem:norm, decomposing an input of length L * (that width) yields shape
\* (L, V) with the nominal V, also as returned by encode_image and encode_text
\* with return_sparo; sem:norm raises NotImplementedError, and an input of any
\* other length fails at the reshape.
C14_SlotWidthBookkeeping ==
  /\ (AfterClip /\ IsClip) =>
       /\ model.model_V =
            IF model.use_sparo /\ EndsWithSoftmax(model.sparo_type)
              THEN model.V + 1 ELSE model.V
       /\ (model.sparo_type[2] \in Weightings /\ model.use_sparo)
            => (model.model_V = model.V + 1
                  <=> model.sparo_type[2] \in {"softmax", "sqrtsoftmax"})
       /\ TowersBuiltWith(model.model_V)
  /\ (ProjectsReserved /\ SupportedTag(model.sparo_type))
       => ret.out = [status |-> "ok", shape |-> <<model.L, model.V>>]
  /\ (ProjectsReserved /\ model.sparo_type = <<"sem", "norm">>)
       => ret.out = Raise("NotImplementedError")
  /\ (AfterProject /\ ~ProjectsReserved) => ret.out = Raise("RuntimeError")
  /\ (/\ ret.op \in {"encode_image", "encode_text"}
      /\ model.use_sparo /\ ret.return_sparo
      /\ Ok(ret.out))
       => ret.out.shape = <<model.L, model.V>>

C14_Witness ==
  /\ ProjectsReserved
  /\ model.sparo_type = <<"sem", "sqrtsoftmax">>
  /\ model.model_V = model.V + 1
  /\ model.visual.kind = "SPAROVisionTransformer"
  /\ model.visual.V = model.V + 1
  /\ ret.out = [status |-> "ok", shape |-> <<model.L, model.V>>]

\* C15 as claimed: for every bottleneck_dim that is not None both towers are
\* built with output width bottleneck_dim and both bottleneck projections map
\* bottleneck_dim to embed_dim; for None there are no projections and the
\* towers emit at embed_dim.
C15_Original ==
  (AfterClip /\ IsClip) =>
    IF model.bottleneck_dim /= NoneVal
      THEN /\ model.visual.output_dim = model.bottleneck_dim
           /\ model.text.output_dim = model.bottleneck_dim
           /\ model.bottleproj = <<model.bottleneck_dim, model.embed_dim>>
      ELSE /\ model.visual.output_dim = model.embed_dim
           /\ model.text.output_dim = model.embed_dim
           /\ model.bottleproj = <<>>

\* The model built with bottleneck_dim = 0: its towers emit at embed_dim, its
\* projections take width 0, and encode_image fails at the projection.
C15_Witness ==
  /\ ret.op = "encode_image"
  /\ model.bottleneck_dim = 0
  /\ ~model.use_sparo /\ ~model.use_codebook
  /\ model.visual.output_dim = model.embed_dim
  /\ model.bottleproj = <<0, model.embed_dim>>
  /\ ret.out = Raise("RuntimeError")

-----------------------------------------------------------------------------
(* convert_weights_to_lp *)

MaxWeight == 5

\* A tensor as its dtype and one payload value; an attribute that is None.
Tensor(dtype, value) == [dtype |-> dtype, value |-> value]
NoTensor == [dtype |-> "None", value |-> 0]

\* The spacing of the values a dtype represents in the payload's range.
Quantum(dtype) ==
  CASE dtype = "float32" -> 1
    [] dtype = "float16" -> 2
    [] dtype = "bfloat16" -> 4

\* A cast that rescales the payload on every call.
ToHalving(t, dtype) == Tensor(dtype, t.value \div 2)

\* tensor.data.to(dtype): the same tensor when the dtype already matches, else
\* the value rounded to what the target represents.
To(t, dtype) ==
  IF t.dtype = dtype THEN t
  ELSE Tensor(dtype, t.value - (t.value % Quantum(dtype)))

\* The attributes _convert_weights casts on a module of each class
\* (lines 563-584).
ConvertedAttrs(kind) ==
  CASE kind \in {"Conv1d", "Conv2d", "Linear"} -> {"weight", "bias"}
    [] kind \in {"MultiheadAttention", "Attention"} ->
         {"in_proj_weight", "q_proj_weight", "k_proj_weight", "v_proj_weight",
          "in_proj_bias", "bias_k", "bias_v"}
    [] kind \in {"CLIP", "TextTransformer"} -> {"text_projection"}
    [] kind = "VisionTransformer" -> {"proj"}
    [] OTHER -> {}

\* _convert_weights(l), lines 562-584: attributes that are None are skipped.
_convert_weights(l, dtype) ==
  [l EXCEPT !.attrs =
     [n \in DOMAIN l.attrs |->
        IF n \in ConvertedAttrs(l.kind) /\ l.attrs[n] /= NoTensor
          THEN To(l.attrs[n], dtype) ELSE l.attrs[n]]]

\* model.apply(_convert_weights), line 586
convert_weights_to_lp(w, dtype) == [path \in DOMAIN w |-> _convert_weights(w[path], dtype)]

\* A freshly initialised float32 parameter.
Fresh32(seed, i) == Tensor("float32", (seed + i) % (MaxWeight + 1))

Module(kind, attrs) == [kind |-> kind, attrs |-> attrs]

Attrs1(n1, t1) == [n \in {n1} |-> t1]

Attrs2(n1, t1, n2, t2) == [n \in {n1, n2} |-> IF n = n1 THEN t1 ELSE t2]

MhaAttrs(seed, i) ==
  [n \in {"in_proj_weight", "q_proj_weight", "k_proj_weight", "v_proj_weight",
          "in_proj_bias", "bias_k", "bias_v"} |->
     IF n = "in_proj_weight" THEN Fresh32(seed, i)
     ELSE IF n = "in_proj_bias" THEN Fresh32(seed, i + 1)
     ELSE NoTensor]

\* Restriction of a module table to the paths in `keep`.
Only(w, keep) == [path \in DOMAIN w \cap keep |-> w[path]]

\* The submodules model.apply visits on a CLIP object, by registered path: a
\* representative module of every class the converter tests for, and of
\* classes it leaves alone, as the towers and CLIP.__init__ register them.
ModuleTable(m, seed) ==
  LET vit == m.visual.kind \in {"VisionTransformer", "SPAROVisionTransformer"}
      all ==
        [path \in {"", "visual", "visual.conv1", "visual.ln_pre",
                   "visual.transformer.resblocks.0.attn",
                   "visual.transformer.resblocks.0.attn.out_proj",
                   "visual.bn1", "visual.attnpool.c_proj", "visual.head.proj",
                   "transformer.resblocks.0.attn", "token_embedding", "ln_final",
                   "vision_bottleproj", "text_bottleproj"} |->
           CASE path = "" ->
                  Module("CLIP",
                    Attrs2("text_projection",
                           IF m.text_projection THEN Fresh32(seed, 0) ELSE NoTensor,
                           "logit_scale", Fresh32(seed, 1)))
             [] path = "visual" ->
                  Module(m.visual.kind,
                    Attrs1("proj",
                           IF m.visual.kind = "VisionTransformer"
                             THEN Fresh32(seed, 2) ELSE NoTensor))
             [] path = "visual.conv1" ->
                  Module("Conv2d", Attrs2("weight", Fresh32(seed, 3), "bias", NoTensor))
             [] path = "visual.ln_pre" ->
                  Module("LayerNorm",
                         Attrs2("weight", Fresh32(seed, 4), "bias", Fresh32(seed, 5)))
             [] path = "visual.transformer.resblocks.0.attn" ->
                  Module("MultiheadAttention", MhaAttrs(seed, 1))
             [] path = "visual.transformer.resblocks.0.attn.out_proj" ->
                  Module("Linear",
                         Attrs2("weight", Fresh32(seed, 3), "bias", Fresh32(seed, 4)))
             [] path = "visual.bn1" ->
                  Module("BatchNorm2d",
                         Attrs2("weight", Fresh32(seed, 5), "bias", Fresh32(seed, 0)))
             [] path = "visual.attnpool.c_proj" ->
                  Module("Linear",
                         Attrs2("weight", Fresh32(seed, 1), "bias", Fresh32(seed, 2)))
             [] path = "visual.head.proj" ->
                  Module("Linear", Attrs2("weight", Fresh32(seed, 3), "bias", NoTensor))
             [] path = "transformer.resblocks.0.attn" ->
                  Module("MultiheadAttention", MhaAttrs(seed, 4))
             [] path = "token_embedding" ->
                  Module("Embedding", Attrs1("weight", Fresh32(seed, 5)))
             [] path = "ln_final" ->
                  Module("LayerNorm",
                         Attrs2("weight", Fresh32(seed, 0), "bias", Fresh32(seed, 1)))
             [] OTHER ->
                  Module("Linear",
                         Attrs2("weight", Fresh32(seed, 2), "bias", Fresh32(seed, 3)))]
  IN Only(all,
       {"", "visual", "transformer.resblocks.0.attn", "token_embedding"}
       \cup (IF vit THEN {"visual.conv1", "visual.ln_pre",
                          "visual.transformer.resblocks.0.attn",
                          "visual.transformer.resblocks.0.attn.out_proj"} ELSE {})
       \cup (IF m.visual.kind = "ModifiedResNet"
               THEN {"visual.conv1", "visual.bn1", "visual.attnpool.c_proj"} ELSE {})
       \cup (IF m.visual.kind = "TimmModel" THEN {"visual.head.proj"} ELSE {})
       \cup (IF m.hoisted THEN {"ln_final"} ELSE {})
       \cup (IF m.bottleneck_dim /= NoneVal
               THEN {"vision_bottleproj", "text_bottleproj"} ELSE {}))

ConvertArgs ==
  {a \in ClipArgs :
     /\ a.vision_cfg.head_width /= 0
     /\ a.text_cfg.hf_model_name = NoneStr
     /\ ~a.text_cfg.global_average_pool /\ ~a.text_cfg.attentional_pool
     /\ ~a.output_dict /\ ~a.share_queries
     /\ a.sparo_type = <<"cont", "const">>
     /\ a.bottleneck_dim /= 0}

\* The model CLIP(a) returns, for arguments it accepts.
Constructed(a) ==
  ClipObject(a,
    _build_vision_tower(TowerDim(a), a.vision_cfg, a.use_sparo, model_V(a), a.reduce_depth),
    _build_text_tower(TowerDim(a), a.text_cfg, a.use_sparo, model_V(a), a.reduce_depth))

Accepted(a) ==
  ClipStatus(a,
    _build_vision_tower(TowerDim(a), a.vision_cfg, a.use_sparo, model_V(a), a.reduce_depth),
    _build_text_tower(TowerDim(a), a.text_cfg, a.use_sparo, model_V(a), a.reduce_depth)
  ).status = "ok"

InitConvert ==
  /\ \E a \in ConvertArgs, seed \in 0 .. MaxWeight :
       /\ Accepted(a)
       /\ model = Constructed(a)
       /\ weights = ModuleTable(Constructed(a), seed)
  /\ modules = EmptyHeap.modules
  /\ params = EmptyHeap.params
  /\ ret = [op |-> "init", status |-> "ok"]
  /\ state_dict = NoDict
  /\ truth = NoDict

\* convert_weights_to_lp(model, dtype), lines 559-586; `before` and `prev` keep
\* the parameters before the call and the dtype of the call before it.
ConvertWeights ==
  /\ \E dtype \in {"float16", "bfloat16"} :
       /\ weights' = convert_weights_to_lp(weights, dtype)
       /\ ret' = [op |-> "convert_weights_to_lp", status |-> "ok", dtype |-> dtype,
                  prev |-> IF ret.op = "convert_weights_to_lp" THEN ret.dtype ELSE "none",
                  before |-> weights]
  /\ UNCHANGED <<model, modules, params, state_dict, truth>>

NextConvert == ConvertWeights

SpecConvert == InitConvert /\ [][NextConvert]_vars

\* C8: a second convert_weights_to_lp with the same dtype leaves every
\* parameter, dtype and value, as the first run left it.
C8_ConvertIdempotent ==
  (ret.op = "convert_weights_to_lp" /\ ret.prev = ret.dtype) => weights = ret.before

C8_Witness ==
  /\ ret.op = "convert_weights_to_lp" /\ ret.prev = "float16" /\ ret.dtype = "float16"
  /\ model.visual.kind = "VisionTransformer"
  /\ weights["visual.conv1"].attrs["weight"].dtype = "float16"
  /\ weights["visual"].attrs["proj"].dtype = "float16"
  /\ weights[""].attrs["text_projection"].dtype = "float16"
  /\ weights["visual.ln_pre"].attrs["weight"] = Tensor("float32", MaxWeight)

-----------------------------------------------------------------------------
(* build_model_from_openai_state_dict *)

MaxLayers == 2
MaxGrid == 2
MaxEdits == 2

\* A state-dict key is held as its dot-separated components, and a tensor of a
\* legacy dict as its shape.
Digits == <<"0", "1", "2", "3", "4", "5">>
Idx(i) == Digits[i + 1]

StartsWith(k, prefix) == Len(k) >= Len(prefix) /\ SubSeq(k, 1, Len(prefix)) = prefix
EndsWith(k, suffix) ==
  Len(k) >= Len(suffix) /\ SubSeq(k, Len(k) - Len(suffix) + 1, Len(k)) = suffix

\* k.startswith("visual.") and k.endswith(".attn.in_proj_weight"), line 621
IsVisualAttnKey(k) ==
  /\ Len(k) > 1 /\ k[1] = "visual"
  /\ Len(k) > 2 /\ EndsWith(k, <<"attn", "in_proj_weight">>)

\* round(n ** 0.5) for an integer n >= 0 (lines 623, 630): the square root of
\* an integer is never halfway between two integers.
RoundSqrt(n) == CHOOSE k \in 0 .. n : k * k - k < n /\ n <= k * k + k

\* The parameter names and shapes of the towers, as the adapter reads them
\* (lines 616-640): two parameters stand for each block.
VitKeys(width, layers, patch, grid, out) ==
  {<<"visual", "proj">>, <<"visual", "conv1", "weight">>,
   <<"visual", "positional_embedding">>}
  \cup {<<"visual", "transformer", "resblocks", Idx(i), "attn", "in_proj_weight">> :
          i \in 0 .. layers - 1}
  \cup {<<"visual", "transformer", "resblocks", Idx(i), "ln_1", "weight">> :
          i \in 0 .. layers - 1}

VitShape(k, width, patch, grid, out) ==
  IF k = <<"visual", "proj">> THEN <<width, out>>
  ELSE IF k = <<"visual", "conv1", "weight">> THEN <<width, 3, patch, patch>>
  ELSE IF k = <<"visual", "positional_embedding">> THEN <<grid * grid + 1, width>>
  ELSE IF EndsWith(k, <<"attn", "in_proj_weight">>) THEN <<3 * width, width>>
  ELSE <<width>>

LayerName(b) == <<"layer1", "layer2", "layer3", "layer4">>[b]

ResNetKeys(stages) ==
  {<<"visual", "attnpool", "positional_embedding">>}
  \cup UNION {{<<"visual", LayerName(b), Idx(i), "conv1", "weight">> :
                 i \in 0 .. stages[b] - 1} : b \in 1 .. 4}
  \cup UNION {{<<"visual", LayerName(b), Idx(i), "bn1", "weight">> :
                 i \in 0 .. stages[b] - 1} : b \in 1 .. 4}

ResNetShape(k, width, output_width, out) ==
  IF k = <<"visual", "attnpool", "positional_embedding">>
    THEN <<output_width * output_width + 1, width * 32>>
    ELSE <<width>>

TextKeys(layers) ==
  {<<"text_projection">>, <<"positional_embedding">>, <<"token_embedding", "weight">>,
   <<"ln_final", "weight">>, <<"logit_scale">>}
  \cup {<<"transformer", "resblocks", Idx(j), "attn", "in_proj_weight">> :
          j \in 0 .. layers - 1}
  \cup {<<"transformer", "resblocks", Idx(j), "ln_1", "weight">> : j \in 0 .. layers - 1}

TextShape(k, width, out, context_length, vocab_size) ==
  IF k = <<"text_projection">> THEN <<width, out>>
  ELSE IF k = <<"positional_embedding">> THEN <<context_length, width>>
  ELSE IF k = <<"token_embedding", "weight">> THEN <<vocab_size, width>>
  ELSE IF k = <<"logit_scale">> THEN <<>>
  ELSE IF EndsWith(k, <<"attn", "in_proj_weight">>) THEN <<3 * width, width>>
  ELSE <<width>>

AttnMaskKey == <<"attn_mask">>

\* model.state_dict() of a CLIP object: the persistent parameters and buffers.
\* attn_mask is registered with persistent=False (line 371).
ExpectedStateDict(m) ==
  LET v == m.visual
      vit == v.kind = "VisionTransformer"
      vkeys == IF vit
                 THEN VitKeys(v.width, v.layers.n, v.patch_size,
                              v.image_size \div v.patch_size, v.output_dim)
                 ELSE ResNetKeys(v.layers.stages)
      tkeys == TextKeys(m.text.layers)
      mask == IF m.attn_mask_persistent THEN {AttnMaskKey} ELSE {}
  IN [k \in vkeys \cup tkeys \cup mask |->
        IF k \in vkeys
          THEN IF vit
                 THEN VitShape(k, v.width, v.patch_size, v.image_size \div v.patch_size,
                               v.output_dim)
                 ELSE ResNetShape(k, v.width, v.image_size \div 32, v.output_dim)
        ELSE IF k \in tkeys
          THEN TextShape(k, m.text.width, m.text.output_dim, m.context_length,
                         m.vocab_size)
        ELSE <<m.context_length, m.context_length>>]

\* len([k for k in state_dict.keys() if k.endswith(".attn.in_proj_weight")]): a
\* count that does not test the "visual." prefix.
CountAnyAttnKeys(sd) ==
  Cardinality({k \in DOMAIN sd : Len(k) > 2 /\ EndsWith(k, <<"attn", "in_proj_weight">>)})

\* lines 620-621
CountVisualAttnKeys(sd) == Cardinality({k \in DOMAIN sd : IsVisualAttnKey(k)})

\* len(set(k.split(".")[2] for k in state_dict if k.startswith(prefix))),
\* lines 627 and 640
CountBlocks(sd, prefix) == Cardinality({k[3] : k \in {x \in DOMAIN sd : StartsWith(x, prefix)}})

ShortKey(sd, prefix) == \E k \in DOMAIN sd : StartsWith(k, prefix) /\ Len(k) < 3

\* lines 618-633: the vision hyperparameters read off the dict, or the error.
InferVision(sd) ==
  IF <<"visual", "proj">> \in DOMAIN sd
    THEN IF ~{<<"visual", "conv1", "weight">>, <<"visual", "positional_embedding">>}
               \subseteq DOMAIN sd
           THEN Raise("KeyError")
         ELSE IF sd[<<"visual", "positional_embedding">>][1] < 1 THEN Raise("TypeError")
         ELSE LET conv1 == sd[<<"visual", "conv1", "weight">>]
                  grid_size == RoundSqrt(sd[<<"visual", "positional_embedding">>][1] - 1)
              IN [status |-> "ok",
                  layers |-> ScalarLayers(CountVisualAttnKeys(sd)),
                  width |-> conv1[1],
                  patch_size |-> conv1[Len(conv1)],
                  image_size |-> conv1[Len(conv1)] * grid_size]
    ELSE IF \E b \in 1 .. 4 : ShortKey(sd, <<"visual", LayerName(b)>>)
           THEN Raise("IndexError")
         ELSE IF ~{<<"visual", "layer1", "0", "conv1", "weight">>,
                   <<"visual", "attnpool", "positional_embedding">>} \subseteq DOMAIN sd
           THEN Raise("KeyError")
         ELSE IF sd[<<"visual", "attnpool", "positional_embedding">>][1] < 1
           THEN Raise("TypeError")
         ELSE LET rows == sd[<<"visual", "attnpool", "positional_embedding">>][1]
                  output_width == RoundSqrt(rows - 1)
              IN IF output_width * output_width + 1 /= rows THEN Raise("AssertionError")
                 ELSE [status |-> "ok",
                       layers |-> TupleLayers([b \in 1 .. 4 |->
                                     CountBlocks(sd, <<"visual", LayerName(b)>>)]),
                       width |-> sd[<<"visual", "layer1", "0", "conv1", "weight">>][1],
                       patch_size |-> NoneVal,
                       image_size |-> output_width * 32]

\* lines 635-640
InferText(sd) ==
  IF ~{<<"text_projection">>, <<"positional_embedding">>, <<"token_embedding", "weight">>,
       <<"ln_final", "weight">>} \subseteq DOMAIN sd
    THEN Raise("KeyError")
  ELSE IF ShortKey(sd, <<"transformer", "resblocks">>) THEN Raise("IndexError")
  ELSE [status |-> "ok",
        embed_dim |-> sd[<<"text_projection">>][2],
        context_length |-> sd[<<"positional_embedding">>][1],
        vocab_size |-> sd[<<"token_embedding", "weight">>][1],
        width |-> sd[<<"ln_final", "weight">>][1],
        heads |-> sd[<<"ln_final", "weight">>][1] \div 64,
        layers |-> CountBlocks(sd, <<"transformer", "resblocks">>)]

\* The CLIP(...) call of lines 642-661: every argument not passed keeps the
\* default of lines 25-69 and 277-292.
LegacyArgs(v, t) ==
  [embed_dim |-> t.embed_dim,
   vision_cfg |-> [timm_model_name |-> NoneStr, layers |-> v.layers, width |-> v.width,
                   head_width |-> 64, patch_size |-> v.patch_size,
                   image_size |-> v.image_size],
   text_cfg |-> [hf_model_name |-> NoneStr, context_length |-> t.context_length,
                 vocab_size |-> t.vocab_size, width |-> t.width, heads |-> t.heads,
                 layers |-> t.layers, global_average_pool |-> FALSE,
                 attentional_pool |-> FALSE],
   output_dict |-> FALSE, use_sparo |-> FALSE, L |-> NoneVal, V |-> NoneVal,
   reduce_depth |-> 0, sparo_type |-> <<"cont", "const">>, share_queries |-> FALSE,
   use_codebook |-> FALSE, num_codes |-> 16384, bottleneck_dim |-> NoneVal]

MetaKeys == {<<"input_resolution">>, <<"context_length">>, <<"vocab_size">>}

\* state_dict.pop(key, None) for the three keys of line 663
PopMeta(sd) == [k \in DOMAIN sd \ MetaKeys |-> sd[k]]

\* A load that tolerates missing and unexpected keys (strict=False).
LoadNonStrict(expected, sd) ==
  IF \E k \in DOMAIN sd \cap DOMAIN expected : sd[k] /= expected[k]
    THEN "RuntimeError" ELSE "ok"

\* model.load_state_dict(state_dict), line 667, strict by default: a missing
\* key, an unexpected key or a tensor of another shape raises.
load_state_dict(expected, sd) ==
  IF DOMAIN sd /= DOMAIN expected THEN "RuntimeError"
  ELSE IF \E k \in DOMAIN sd : sd[k] /= expected[k] THEN "RuntimeError"
  ELSE "ok"

\* A legacy checkpoint exported from a model with hyperparameters t.
LegacyDict(t) ==
  LET vkeys == IF t.vit THEN VitKeys(t.width, t.layers, t.patch, t.grid, t.embed_dim)
               ELSE ResNetKeys(<<1, 1, t.layers, 1>>)
      tkeys == TextKeys(t.text_layers)
  IN [k \in vkeys \cup tkeys |->
        IF k \in vkeys
          THEN IF t.vit THEN VitShape(k, t.width, t.patch, t.grid, t.embed_dim)
               ELSE ResNetShape(k, t.width, t.grid, t.embed_dim)
          ELSE TextShape(k, 64, t.embed_dim, 3, 5)]

Truths ==
  [vit : BOOLEAN, width : {64, 128}, layers : 1 .. MaxLayers, patch : {2},
   grid : 1 .. MaxGrid, text_layers : {1}, embed_dim : {4}, edits : {0}]

\* Keys a dict may carry beyond the exported ones.
ExtraKeys(t) ==
  MetaKeys \cup {AttnMaskKey, <<"visual", "extra">>,
    <<"visual", "transformer", "resblocks", Idx(t.layers), "attn", "in_proj_weight">>,
    <<"visual", "transformer", "resblocks", Idx(t.layers), "ln_1", "weight">>}

PosKey(sd) ==
  IF <<"visual", "proj">> \in DOMAIN sd THEN <<"visual", "positional_embedding">>
  ELSE <<"visual", "attnpool", "positional_embedding">>

InitLegacy ==
  /\ \E t \in Truths : truth = t /\ state_dict = LegacyDict(t)
  /\ model = NoModel
  /\ modules = EmptyHeap.modules
  /\ params = EmptyHeap.params
  /\ ret = [op |-> "init", status |-> "ok"]
  /\ weights = NoDict

Editable == ret.op = "init" /\ truth.edits < MaxEdits

\* The caller's dict lacks a key.
DropKey ==
  /\ Editable
  /\ \E k \in DOMAIN state_dict :
       state_dict' = [x \in DOMAIN state_dict \ {k} |-> state_dict[x]]
  /\ truth' = [truth EXCEPT !.edits = @ + 1]
  /\ UNCHANGED <<model, modules, params, ret, weights>>

\* The caller's dict carries a key more.
AddKey ==
  /\ Editable
  /\ \E k \in ExtraKeys(truth) \ DOMAIN state_dict :
       state_dict' = [x \in DOMAIN state_dict \cup {k} |->
                        IF x = k THEN <<truth.width>> ELSE state_dict[x]]
  /\ truth' = [truth EXCEPT !.edits = @ + 1]
  /\ UNCHANGED <<model, modules, params, ret, weights>>

\* The caller's position-embedding table has a row more.
AddRow ==
  /\ Editable
  /\ PosKey(state_dict) \in DOMAIN state_dict
  /\ state_dict' = [state_dict EXCEPT ![PosKey(state_dict)][1] = @ + 1]
  /\ truth' = [truth EXCEPT !.edits = @ + 1]
  /\ UNCHANGED <<model, modules, params, ret, weights>>

LegacyFailed(status, vision) ==
  /\ ret' = [op |-> "build_model_from_openai_state_dict", status |-> status,
             sd_in |-> state_dict, vision |-> vision, constructed |-> NoModel]
  /\ UNCHANGED <<model, state_dict, weights>>

\* build_model_from_openai_state_dict(state_dict), lines 611-668.
BuildModelFromOpenAI ==
  /\ ret.op = "init"
  /\ LET v == InferVision(state_dict)
         t == InferText(state_dict)
         a == LegacyArgs(v, t)
         m == Constructed(a)
         popped == PopMeta(state_dict)
         loaded == load_state_dict(ExpectedStateDict(m), popped)
     IN IF ~Ok(v) THEN LegacyFailed(v.status, v)
        ELSE IF ~Ok(t) THEN LegacyFailed(t.status, v)
        ELSE IF ~Accepted(a) THEN LegacyFailed("ConstructionError", v)
        ELSE /\ state_dict' = popped
             /\ ret' = [op |-> "build_model_from_openai_state_dict", status |-> loaded,
                        sd_in |-> state_dict, vision |-> v, constructed |-> m]
             /\ IF loaded = "ok"
                  THEN /\ model' = [m EXCEPT !.training = FALSE]
                       /\ weights' = convert_weights_to_lp(ModuleTable(m, 0), "float16")
                  ELSE UNCHANGED <<model, weights>>
  /\ UNCHANGED <<modules, params, truth>>

NextLegacy ==
  \/ DropKey
  \/ AddKey
  \/ AddRow
  \/ BuildModelFromOpenAI

SpecLegacy == InitLegacy /\ [][NextLegacy]_vars

AfterLegacy == ret.op = "build_model_from_openai_state_dict"

PersistentKeys(m) == DOMAIN ExpectedStateDict(m)

\* C5: once the metadata keys are stripped, a dict whose key set differs from
\* the persistent keys of the freshly constructed model makes the call fail
\* and return no model; a model is returned, in evaluation mode, only when
\* the key sets are equal; attn_mask is not among the expected keys.
C5_StrictLoad ==
  AfterLegacy =>
    /\ (Ok(ret.constructed)
        /\ (DOMAIN ret.sd_in) \ MetaKeys /= PersistentKeys(ret.constructed))
         => (ret.status /= "ok" /\ model = NoModel)
    /\ ret.status = "ok"
         => (/\ Ok(model) /\ ~model.training
             /\ (DOMAIN ret.sd_in) \ MetaKeys = PersistentKeys(model))
    /\ ret.status /= "ok" => model = NoModel
    /\ Ok(ret.constructed) => AttnMaskKey \notin PersistentKeys(ret.constructed)

C5_Witness ==
  /\ AfterLegacy /\ Ok(ret.constructed)
  /\ PersistentKeys(ret.constructed) \ DOMAIN ret.sd_in
       = {<<"visual", "transformer", "resblocks", "0", "ln_1", "weight">>}
  /\ DOMAIN ret.sd_in \subseteq PersistentKeys(ret.constructed)
  /\ ret.status = "RuntimeError" /\ model = NoModel

VisualAttnKey(i) == <<"visual", "transformer", "resblocks", Idx(i), "attn", "in_proj_weight">>

\* The dict still is, in what the vision inference reads, the export of a
\* transformer backbone with the hyperparameters of `truth`.
VisionIntact(sd) ==
  /\ truth.vit
  /\ {<<"visual", "proj">>, <<"visual", "conv1", "weight">>,
      <<"visual", "positional_embedding">>} \subseteq DOMAIN sd
  /\ sd[<<"visual", "conv1", "weight">>][1] = truth.width
  /\ sd[<<"visual", "conv1", "weight">>][4] = truth.patch
  /\ sd[<<"visual", "positional_embedding">>][1] = truth.grid * truth.grid + 1
  /\ DOMAIN sd \cap {VisualAttnKey(i) : i \in 0 .. MaxLayers + 1}
       = {VisualAttnKey(i) : i \in 0 .. truth.layers - 1}

\* C6: from a transformer-backbone dict with conv1 of first dimension W and
\* last dimension P, N visual attention in_proj keys and a position table of
\* G*G+1 rows, the adapter recovers width W, layers N, patch size P and
\* image size P*G.
C6_VitShapeInference ==
  (AfterLegacy /\ VisionIntact(ret.sd_in))
    => /\ Ok(ret.vision)
       /\ ret.vision.width = truth.width
       /\ ret.vision.layers = ScalarLayers(truth.layers)
       /\ ret.vision.patch_size = truth.patch
       /\ ret.vision.image_size = truth.patch * truth.grid

C6_Witness ==
  /\ AfterLegacy /\ VisionIntact(ret.sd_in)
  /\ truth.grid = MaxGrid /\ truth.layers = MaxLayers /\ truth.width = 128
  /\ ret.status = "ok"
  /\ model.visual.image_size = 2 * MaxGrid
  /\ model.visual.layers.n = MaxLayers

-----------------------------------------------------------------------------
(* resize_pos_embed *)

MaxTargetGrid == 3

\* extra_tokens = 1 (line 693)
ExtraTokens == 1

PosEmbedKey == <<"visual", "positional_embedding">>

\* int(math.sqrt(n)), line 702
ISqrt(n) == CHOOSE k \in 0 .. n : k * k <= n /\ n < (k + 1) * (k + 1)

\* to_2tuple of a number
to_2tuple(n) == <<n, n>>

\* A table is held as the sequence of its rows, a row as a tag: the class
\* token's row, a row of the stored grid, a row F.interpolate produced.
Interpolated(grid_size) == [i \in 1 .. grid_size[1] * grid_size[2] |-> "interp"]

\* A reassembly that leaves the class-token rows out.
NewPosEmbedNoToken(pos_emb_tok, pos_emb_img) == pos_emb_img

\* torch.cat([pos_emb_tok, pos_emb_img], dim=0), line 715
NewPosEmbed(pos_emb_tok, pos_emb_img) == pos_emb_tok \o pos_emb_img

\* resize_pos_embed(state_dict, model), lines 687-718: the outcome and the dict
\* as the call leaves it.  With n grid rows of width D and g = int(sqrt(n)),
\* reshape(1, g, g, -1) needs g > 0 and g*g dividing n*D and yields n*D/(g*g)
\* channels, which torch.cat accepts next to the class-token row of width D
\* only when n = g*g; every other n raises before line 718 writes.
resize_pos_embed(sd, m) ==
  IF PosEmbedKey \notin DOMAIN sd \/ ~m.visual.has_grid_size
    THEN [status |-> "ok", sd |-> sd]
  ELSE LET old_pos_embed == sd[PosEmbedKey]
           grid_size == m.visual.grid_size
           new_seq_len == grid_size[1] * grid_size[2] + ExtraTokens
           cut == IF Len(old_pos_embed) < ExtraTokens
                    THEN Len(old_pos_embed) ELSE ExtraTokens
           pos_emb_tok == SubSeq(old_pos_embed, 1, cut)
           pos_emb_img == SubSeq(old_pos_embed, cut + 1, Len(old_pos_embed))
           old_grid_size == to_2tuple(ISqrt(Len(pos_emb_img)))
       IN IF new_seq_len = Len(old_pos_embed) THEN [status |-> "ok", sd |-> sd]
          ELSE IF old_grid_size[1] = 0
                  \/ old_grid_size[1] * old_grid_size[2] /= Len(pos_emb_img)
            THEN [status |-> "RuntimeError", sd |-> sd]
          ELSE [status |-> "ok",
                sd |-> [sd EXCEPT ![PosEmbedKey] =
                          NewPosEmbed(pos_emb_tok, Interpolated(grid_size))]]

\* The table stored by a model of grid gh x gw: the class token's row, then
\* the grid's rows.
Table(cls, gh, gw) == [i \in 1 .. gh * gw + 1 |-> IF i = 1 THEN cls ELSE "grid"]

\* Checkpoints with and without a position table; image_size may be a pair
\* (line 30), so the stored grid need not be square.
ResizeDicts ==
  {[k \in {<<"visual", "proj">>, <<"logit_scale">>} |-> <<"w">>]}
  \cup {[k \in {<<"visual", "proj">>, <<"logit_scale">>, PosEmbedKey} |->
           IF k = PosEmbedKey THEN Table(cls, gh, gw) ELSE <<"w">>] :
          cls \in {"cls_a", "cls_b"}, gh \in 1 .. MaxTargetGrid, gw \in 1 .. MaxTargetGrid}

\* The towers a target model can have: grid-based ones carry grid_size.
ResizeTargets ==
  {[kind |-> "ModifiedResNet", has_grid_size |-> FALSE, grid_size |-> <<>>]}
  \cup {[kind |-> "VisionTransformer", has_grid_size |-> TRUE, grid_size |-> <<h, w>>] :
          h \in 1 .. MaxTargetGrid, w \in 1 .. MaxTargetGrid}

InitResize ==
  /\ state_dict \in ResizeDicts
  /\ \E v \in ResizeTargets : model = [status |-> "ok", visual |-> v]
  /\ modules = EmptyHeap.modules
  /\ params = EmptyHeap.params
  /\ ret = [op |-> "init", status |-> "ok"]
  /\ truth = NoDict
  /\ weights = NoDict

\* A call of resize_pos_embed on the caller's dict; `before` keeps the dict as
\* it was passed.
ResizePosEmbed ==
  /\ LET r == resize_pos_embed(state_dict, model)
     IN /\ state_dict' = r.sd
        /\ ret' = [op |-> "resize_pos_embed", status |-> r.status, before |-> state_dict]
  /\ UNCHANGED <<model, modules, params, truth, weights>>

NextResize == ResizePosEmbed

SpecResize == InitResize /\ [][NextResize]_vars

AfterResize == ret.op = "resize_pos_embed"

TargetRows == model.visual.grid_size[1] * model.visual.grid_size[2] + 1

\* Only the position table differs from the dict passed in; it has the
\* target's row count and the class-token row it had.
OnlyTableResized ==
  /\ ret.status = "ok"
  /\ DOMAIN state_dict = DOMAIN ret.before
  /\ \A k \in DOMAIN state_dict \ {PosEmbedKey} : state_dict[k] = ret.before[k]
  /\ Len(state_dict[PosEmbedKey]) = TargetRows
  /\ Len(ret.before[PosEmbedKey]) >= 1
  /\ state_dict[PosEmbedKey][1] = ret.before[PosEmbedKey][1]

LeftUnchanged == ret.status = "ok" /\ state_dict = ret.before

NothingToResize ==
  PosEmbedKey \notin DOMAIN ret.before \/ ~model.visual.has_grid_size

\* The stored grid, read as the square the code assumes, is the target grid.
SameGridSize ==
  to_2tuple(ISqrt(Len(ret.before[PosEmbedKey]) - 1)) = model.visual.grid_size

\* C7 as stated: without the key, without grid_size or with equal grid sizes
\* the dict is unchanged; in every other case only the position table is
\* replaced, by one of grid_h*grid_w + 1 rows that keeps the class-token row.
C7_Original ==
  AfterResize =>
    IF NothingToResize THEN LeftUnchanged
    ELSE IF Len(ret.before[PosEmbedKey]) >= 1 /\ SameGridSize THEN LeftUnchanged
    ELSE OnlyTableResized

\* The stored table is a class-token row followed by a g x g grid, g >= 1.
SquareStored ==
  \E g \in 1 .. Len(ret.before[PosEmbedKey]) :
    Len(ret.before[PosEmbedKey]) = g * g + 1

\* C7, amended: without the key, without grid_size, or when the stored table
\* already has grid_h*grid_w + 1 rows (equal grid sizes included) the dict is
\* unchanged; otherwise, when the stored table is a class-token row followed
\* by a square grid, only the position table is replaced, under the same key,
\* by one of grid_h*grid_w + 1 rows whose first row is the original class
\* token's; otherwise the call raises and the dict is unchanged.
C7_ResizeFrame ==
  AfterResize =>
    IF NothingToResize THEN LeftUnchanged
    ELSE IF Len(ret.before[PosEmbedKey]) = TargetRows THEN LeftUnchanged
    ELSE IF SquareStored THEN OnlyTableResized /\ state_dict /= ret.before
    ELSE ret.status = "RuntimeError" /\ state_dict = ret.before

C7_Witness ==
  /\ AfterResize /\ ~NothingToResize
  /\ Len(ret.before[PosEmbedKey]) = 2
  /\ model.visual.grid_size = <<MaxTargetGrid, 1>>
  /\ ret.before[PosEmbedKey][1] = "cls_b"
  /\ state_dict[PosEmbedKey] = <<"cls_b">> \o [i \in 1 .. MaxTargetGrid |-> "interp"]

-----------------------------------------------------------------------------
(* convert_to_custom_text_state_dict *)

\* A caller may pass its dict through the remap this many times.
MaxRemaps == 2

\* The prefixes of lines 599-603.
TextPrefixes ==
  {"text_projection", "positional_embedding", "token_embedding", "transformer",
   "ln_final"}

\* What may follow a prefix inside the first component of a key.
Suffixes == {"", "_aux"}

\* k.startswith(p) for a prefix without a dot (line 598): keys are held as
\* their dot-separated components, so the test is on the first component.
KeyStartsWith(k, p) == Len(k) >= 1 /\ \E x \in Suffixes : k[1] = p \o x

\* A remap that moves every key under "text.".
RemapKeyAll(k) == <<"text">> \o k

\* lines 598-605: k = 'text.' + k for a key with one of the prefixes.
RemapKey(k) ==
  IF \E p \in TextPrefixes : KeyStartsWith(k, p) THEN <<"text">> \o k ELSE k

\* lines 593-608: the dict returned, whether it is a new object, and the
\* argument as the call leaves it (it is only read).
convert_to_custom_text_state_dict(d) ==
  IF <<"text_projection">> \in DOMAIN d
    THEN LET new == {RemapKey(k) : k \in DOMAIN d}
         IN [result |-> [nk \in new |-> d[CHOOSE k \in DOMAIN d : RemapKey(k) = nk]],
             is_new |-> TRUE, state_dict |-> d]
    ELSE [result |-> d, is_new |-> FALSE, state_dict |-> d]

\* The tensor stored under a key when the checkpoint was written.
Stored(k) == [tensor |-> k]

\* Keys of a checkpoint in the flat layout, text tower at top level.
FlatKeys ==
  {<<"text_projection">>, <<"text_projection_aux">>, <<"positional_embedding">>,
   <<"token_embedding", "weight">>,
   <<"transformer", "resblocks", "0", "ln_1", "weight">>,
   <<"ln_final", "weight">>, <<"visual", "proj">>, <<"logit_scale">>,
   <<"text_sparo", "q_emb">>}

\* Keys of a checkpoint in the nested layout, text tower under "text.".
NestedKeys ==
  {<<"text", "text_projection">>, <<"text", "positional_embedding">>,
   <<"text", "transformer", "resblocks", "0", "ln_1", "weight">>,
   <<"visual", "proj">>, <<"logit_scale">>}

RemapDicts ==
  {[k \in ks |-> Stored(k)] : ks \in (SUBSET FlatKeys) \cup (SUBSET NestedKeys)}

InitRemap ==
  /\ state_dict \in RemapDicts
  /\ model = NoModel
  /\ modules = EmptyHeap.modules
  /\ params = EmptyHeap.params
  /\ ret = [op |-> "init", status |-> "ok", n |-> 0]
  /\ truth = NoDict
  /\ weights = NoDict

\* state_dict = convert_to_custom_text_state_dict(state_dict): the caller
\* rebinds its name to the result; `before` keeps the dict that was passed.
ConvertToCustomText ==
  /\ ret.n < MaxRemaps
  /\ LET r == convert_to_custom_text_state_dict(state_dict)
     IN /\ state_dict' = r.result
        /\ ret' = [op |-> "convert_to_custom_text_state_dict", status |-> "ok",
                   n |-> ret.n + 1, before |-> state_dict, is_new |-> r.is_new,
                   passed |-> r.state_dict]
  /\ UNCHANGED <<model, modules, params, truth, weights>>

NextRemap == ConvertToCustomText

SpecRemap == InitRemap /\ [][NextRemap]_vars

AfterRemap == ret.op = "convert_to_custom_text_state_dict"

\* First components that start with one of the five text-tower prefixes.
TextTowerHeads == {p \o x : p \in TextPrefixes, x \in Suffixes}

\* C16: when the dict passed has the key 'text_projection' the result is a new
\* dict with as many keys, holding under 'text.' + k the value of every key k
\* that starts with one of the five prefixes and under k itself the value of
\* every other key; without that key the dict passed is itself returned.  The
\* dict passed is not modified, and a second application returns its argument
\* unchanged.
C16_KeyRemap ==
  AfterRemap =>
    /\ ret.passed = ret.before
    /\ IF <<"text_projection">> \in DOMAIN ret.before
         THEN /\ ret.is_new
              /\ Cardinality(DOMAIN state_dict) = Cardinality(DOMAIN ret.before)
              /\ \A k \in DOMAIN ret.before :
                   LET nk == IF k[1] \in TextTowerHeads THEN <<"text">> \o k ELSE k
                   IN nk \in DOMAIN state_dict /\ state_dict[nk] = ret.before[k]
         ELSE ~ret.is_new /\ state_dict = ret.before
    /\ ret.n >= 2 => state_dict = ret.before

C16_Witness ==
  /\ AfterRemap /\ ret.n = 2
  /\ DOMAIN state_dict = {<<"text", "text_projection">>,
                          <<"text", "text_projection_aux">>,
                          <<"text", "transformer", "resblocks", "0", "ln_1", "weight">>,
                          <<"visual", "proj">>}
  /\ state_dict[<<"text", "text_projection_aux">>] = Stored(<<"text_projection_aux">>)
  /\ state_dict[<<"visual", "proj">>] = Stored(<<"visual", "proj">>)
  /\ state_dict[<<"text", "transformer", "resblocks", "0", "ln_1", "weight">>]
       = Stored(<<"transformer", "resblocks", "0", "ln_1", "weight">>)

====
